---- MODULE Spec2Model ----
(***************************************************************************)
(* The synchronizing record store of src/db.ts: class DatabaseEngine, which *)
(* keeps every entity collection twice, in a Remote table (Supabase) and in *)
(* a Local object store (IndexedDB), and the calls all / save / delete /    *)
(* getById that the exported db object routes to it.                        *)
(*                                                                          *)
(* Every engine call is asynchronous and has two await points: the cloud    *)
(* step (cloudAll / cloudSave / cloudDelete / the select of getById) and    *)
(* the local step (connectLocal, the transaction and its request).  A call  *)
(* is modelled as call, cloud step, local step.                             *)
(***************************************************************************)
EXTENDS Integers, FiniteSets, Sequences, TLC

\* ------------------------------------------------------------------ bounds
NumIds == 2
NumVals == 2

Ids == 1..NumIds
\* The contents of a record apart from its id (all its other fields).
Vals == 1..NumVals

\* The object stores / tables (STORES); the engine treats all six alike.
Stores == {"users", "customers", "services", "jobs", "inventory", "settings"}

\* The collection the callers of Spec work on; the others stay as they are.
Served == {"customers"}

\* The UI event loop awaiting one call at a time, and a second caller whose
\* calls may overlap with it.
Callers == {"ui", "bg"}

VARIABLES
    configured,    \* supabase # null (module constant set at load time)
    remoteUp,      \* the network and the backend answer without error
    remote,        \* the Remote tables: store -> (id -> contents)
    local,         \* the Local object stores: store -> (id -> contents)
    localDb,       \* DatabaseEngine.localDb # null (the cached connection)
    call,          \* per caller: the engine call in flight or just settled
    netAttempted,  \* history: some call reached supabase.from / .channel
    watch,         \* history: one settled save or delete, until the next
                   \* save or delete of the same store and id begins
    session,       \* localStorage 'regal_erp_session_id' (NoSession: no item)
    task,          \* the db.auth / db.system / db.init operation in progress
    book,          \* the workbook last exported or handed to restore
    orig,          \* history: the collections as the last backup read them
    form,          \* the job form of JobManagement / InvoicePage being filled in
    job,           \* the job last handed to db.jobs.save, until a form is opened
    shown,         \* CustomerManagement: the customers state (the list displayed)
    handler,       \* per caller that has one: the handler of the customer screen
                   \* awaiting a call
    sent,          \* history: the customer last handed to db.customers.save
    chan           \* per table subscribed to: the realtime channel, and history:
                   \* the row events and the callbacks since subscribe

\* The state of the pages; no step of the db object changes it.
pages == <<form, job, shown, handler, sent, chan>>

\* The state of the customer screen; no step of a job form changes it.
customersPage == <<shown, handler, sent>>

\* The state of the job forms; no step of the customer screen changes it.
jobsPage == <<form, job>>

\* The state above the engine; no engine step changes it.
app == <<session, task, book, orig, pages>>

\* The state of the engine and of the db object; no step of a form changes it.
store == <<configured, remoteUp, remote, local, localDb, call, netAttempted, watch,
           session, task, book, orig>>

vars == <<configured, remoteUp, remote, local, localDb, call, netAttempted, watch,
          session, task, book, orig, form, job, shown, handler, sent, chan>>

\* ------------------------------------------------------------------ tables
\* A table is a function from the ids it holds to their contents.
Empty == [i \in {} |-> 1]

Put(t, id, v) == [i \in (DOMAIN t) \cup {id} |-> IF i = id THEN v ELSE t[i]]

Delete(t, id) == [i \in (DOMAIN t) \ {id} |-> t[i]]

Holds(t, id, v) == id \in DOMAIN t /\ t[id] = v

Tables == UNION {[D -> Vals] : D \in SUBSET Ids}

\* ------------------------------------------------------------ call records
Idle ==
    [op |-> "none", store |-> "customers", id |-> 1, val |-> 1, pc |-> "idle",
     cloudOk |-> FALSE, cloud |-> Empty, out |-> "none", src |-> "none",
     res |-> Empty, absent |-> FALSE, lf |-> "none"]

NoWatch == [kind |-> "none", store |-> "customers", id |-> 1, val |-> 1, absent |-> FALSE]

Begin(o, s, id, v) ==
    [Idle EXCEPT !.op = o, !.store = s, !.id = id, !.val = v, !.pc = "cloud"]

\* localStorage.getItem gives null: no session pointer is stored.
NoSession == 0

\* The fixed key 'current_config' of the settings record.
CurrentConfig == 1

\* A workbook is a function from its sheet names to the rows of each sheet.
NoBook == [s \in {} |-> Empty]

\* The operation of the db object in progress: its name, its position, its
\* arguments (id, val, book) and its loop variables (at: the index of the
\* store being handled, id: the row last handed to save).
NoTask ==
    [name |-> "none", pc |-> "none", id |-> 1, val |-> 1, book |-> NoBook, at |-> 1,
     fresh |-> FALSE]

\* No operation of the db object (login, getSession, init, backup, restore) is
\* waiting for an engine call.
Quiet == task.name = "none"

\* The caller can make its next call: its last one has settled, and the UI,
\* which awaits each operation before the next, has none in progress.
Free(c) == call[c].pc \in {"idle", "done"} /\ (c = "ui" => Quiet)

\* The caller's last call was operation o and has settled.
Settled(c, o) == call[c].pc = "done" /\ call[c].op = o

\* A call that settles: its promise resolves with res, or rejects.
Resolve(r, source, result, fault) ==
    [r EXCEPT !.pc = "done", !.out = "resolved", !.src = source, !.res = result,
              !.cloudOk = FALSE, !.cloud = Empty, !.lf = fault]

Reject(r, fault) ==
    [r EXCEPT !.pc = "done", !.out = "rejected", !.cloudOk = FALSE, !.cloud = Empty,
              !.lf = fault]

\* The watch is dropped when a save or delete of the watched id begins.
Unwatch(s, id) ==
    IF watch.kind # "none" /\ watch.store = s /\ watch.id = id THEN NoWatch ELSE watch

\* The value of a piece of page state that holds nothing.
Blank(x) == DOMAIN x = {}

\* No form is open.
NoForm == Empty

\* The form as openModal() / resetForm leave it.
BlankForm(page) ==
    [page |-> page, items |-> <<>>, paid |-> 0, status |-> "PENDING", total |-> 0]

\* No job has been handed to db.jobs.save since a form was opened.
NoJob == Empty

\* An Aadhaar number as typed or read from a sheet: its digits and the white
\* space among them.
NoAadhaar == [digits |-> 0, spaces |-> 0]

\* No customer has been handed to db.customers.save.
NoCustomer == Empty

\* The tables a page subscribes to (JobManagement: jobs, customers, services).
Watched == {"jobs", "customers", "services"}

Init ==
    /\ chan = Empty
    /\ form = NoForm
    /\ job = NoJob
    /\ shown = Empty
    /\ handler = Empty
    /\ sent = NoCustomer
    /\ session = NoSession
    /\ task = NoTask
    /\ book = NoBook
    /\ orig = [s \in Stores |-> Empty]
    /\ configured \in BOOLEAN
    /\ remoteUp \in BOOLEAN
    /\ remote = [s \in Stores |-> Empty]
    /\ local = [s \in Stores |-> Empty]
    /\ localDb = FALSE
    /\ call = [c \in Callers |-> Idle]
    /\ netAttempted = FALSE
    /\ watch = NoWatch

\* ------------------------------------------------------- the Remote adapter
\* Variant: the `if (!supabase)` guard is missing.
NetworkAttemptAlways == TRUE

\* `if (!supabase) return ...`: whether a cloud step reaches the network.
NetworkAttempt == configured

\* The request is answered without error.
RemoteAnswers == NetworkAttempt /\ remoteUp

\* Variant: cloudAll answers [] instead of null when it has no rows to give
\* (as the Remote-only revision of all() does).
CloudAllEmptyList(s) ==
    [ok |-> TRUE, data |-> IF NetworkAttempt /\ remoteUp THEN remote[s] ELSE Empty]

\* cloudAll: the rows of the table, or null.
CloudAll(s) ==
    IF RemoteAnswers THEN [ok |-> TRUE, data |-> remote[s]]
    ELSE [ok |-> FALSE, data |-> Empty]

\* cloudSave: the Remote tables after the upsert.
CloudSave(s, id, v) ==
    IF RemoteAnswers THEN [remote EXCEPT ![s] = Put(remote[s], id, v)] ELSE remote

\* cloudDelete: the Remote tables after delete().eq('id', id).
CloudDelete(s, id) ==
    IF RemoteAnswers THEN [remote EXCEPT ![s] = Delete(remote[s], id)] ELSE remote

\* Variant: the catch block of cloudSave / cloudDelete rethrows.
CloudWriteThrowsOnFailure(ok) == ~ok

\* What cloudSave / cloudDelete hand back to save / delete: a boolean that
\* the caller ignores, never an exception.
CloudWriteThrows(ok) == FALSE

\* ------------------------------------------------------- the Local adapter
\* Variant: store.add instead of store.put (rows already cached are kept).
RefreshAdd(t, data) ==
    [i \in (DOMAIN t) \cup (DOMAIN data) |-> IF i \in DOMAIN t THEN t[i] ELSE data[i]]

\* cloudData.forEach(item => store.put(item))
Refresh(t, data) ==
    [i \in (DOMAIN t) \cup (DOMAIN data) |-> IF i \in DOMAIN data THEN data[i] ELSE t[i]]

\* store.getAll()
LocalGetAll(s) == local[s]

\* store.put(item)
LocalPut(s, id, v) == [local EXCEPT ![s] = Put(local[s], id, v)]

\* Variant: store.clear() instead of store.delete(id).
LocalDeleteClear(s, id) == [local EXCEPT ![s] = Empty]

\* store.delete(id)
LocalDelete(s, id) == [local EXCEPT ![s] = Delete(local[s], id)]

\* ---------------------------------------------------------------- all()
AllCall(c, s) ==
    /\ Free(c)
    /\ call' = [call EXCEPT ![c] = Begin("all", s, 1, 1)]
    /\ UNCHANGED <<app, configured, remoteUp, remote, local, localDb, netAttempted, watch>>

AllCloud(c) ==
    /\ call[c].pc = "cloud" /\ call[c].op = "all"
    /\ LET r == CloudAll(call[c].store) IN
       call' = [call EXCEPT ![c].pc = "local", ![c].cloudOk = r.ok, ![c].cloud = r.data]
    /\ netAttempted' = (netAttempted \/ NetworkAttempt)
    /\ UNCHANGED <<app, configured, remoteUp, remote, local, localDb, watch>>

\* Variant: a two-way sync, which also upserts into the Remote table the
\* Local rows that the Remote did not return.
AllRefreshTwoWay(c) ==
    /\ call[c].pc = "local" /\ call[c].op = "all" /\ call[c].cloudOk
    /\ localDb' = TRUE
    /\ local' = [local EXCEPT ![call[c].store] = Refresh(local[call[c].store], call[c].cloud)]
    /\ remote' = [remote EXCEPT ![call[c].store] = Refresh(local[call[c].store], remote[call[c].store])]
    /\ call' = [call EXCEPT ![c] = Resolve(call[c], "cloud", call[c].cloud, "ok")]
    /\ UNCHANGED <<app, configured, remoteUp, netAttempted, watch>>

\* if (cloudData): refresh the Local cache and return cloudData.
AllRefresh(c) ==
    /\ call[c].pc = "local" /\ call[c].op = "all" /\ call[c].cloudOk
    /\ localDb' = TRUE
    /\ local' = [local EXCEPT ![call[c].store] = Refresh(local[call[c].store], call[c].cloud)]
    /\ call' = [call EXCEPT ![c] = Resolve(call[c], "cloud", call[c].cloud, "ok")]
    /\ UNCHANGED <<app, configured, remoteUp, remote, netAttempted, watch>>

\* Local fallback: getAll on the object store.
AllLocal(c) ==
    /\ call[c].pc = "local" /\ call[c].op = "all" /\ ~call[c].cloudOk
    /\ localDb' = TRUE
    /\ call' = [call EXCEPT ![c] = Resolve(call[c], "local", LocalGetAll(call[c].store), "ok")]
    /\ UNCHANGED <<app, configured, remoteUp, remote, local, netAttempted, watch>>

\* ---------------------------------------------------------------- save()
SaveCall(c, s, id, v) ==
    /\ Free(c)
    /\ call' = [call EXCEPT ![c] = Begin("save", s, id, v)]
    /\ watch' = Unwatch(s, id)
    /\ UNCHANGED <<app, configured, remoteUp, remote, local, localDb, netAttempted>>

SaveCloud(c) ==
    /\ call[c].pc = "cloud" /\ call[c].op = "save"
    /\ remote' = CloudSave(call[c].store, call[c].id, call[c].val)
    /\ netAttempted' = (netAttempted \/ NetworkAttempt)
    /\ call' = [call EXCEPT ![c] =
                  IF CloudWriteThrows(RemoteAnswers) THEN Reject(call[c], "none")
                  ELSE [call[c] EXCEPT !.pc = "local"]]
    /\ UNCHANGED <<app, configured, remoteUp, local, localDb, watch>>

SaveLocal(c) ==
    /\ call[c].pc = "local" /\ call[c].op = "save"
    /\ localDb' = TRUE
    /\ local' = LocalPut(call[c].store, call[c].id, call[c].val)
    /\ call' = [call EXCEPT ![c] =
                  Resolve(call[c], "none", Put(Empty, call[c].id, call[c].val), "ok")]
    /\ watch' \in {watch, [kind |-> "save", store |-> call[c].store, id |-> call[c].id,
                           val |-> call[c].val, absent |-> FALSE]}
    /\ UNCHANGED <<app, configured, remoteUp, remote, netAttempted>>

\* -------------------------------------------------------------- delete()
DeleteCall(c, s, id) ==
    /\ Free(c)
    /\ call' = [call EXCEPT ![c] =
                  [Begin("delete", s, id, 1) EXCEPT
                      !.absent = (id \notin DOMAIN local[s] /\ id \notin DOMAIN remote[s])]]
    /\ watch' = Unwatch(s, id)
    /\ UNCHANGED <<app, configured, remoteUp, remote, local, localDb, netAttempted>>

DeleteCloud(c) ==
    /\ call[c].pc = "cloud" /\ call[c].op = "delete"
    /\ remote' = CloudDelete(call[c].store, call[c].id)
    /\ netAttempted' = (netAttempted \/ NetworkAttempt)
    /\ call' = [call EXCEPT ![c] =
                  IF CloudWriteThrows(RemoteAnswers) THEN Reject(call[c], "none")
                  ELSE [call[c] EXCEPT !.pc = "local"]]
    /\ UNCHANGED <<app, configured, remoteUp, local, localDb, watch>>

DeleteLocal(c) ==
    /\ call[c].pc = "local" /\ call[c].op = "delete"
    /\ localDb' = TRUE
    /\ local' = LocalDelete(call[c].store, call[c].id)
    /\ call' = [call EXCEPT ![c] = Resolve(call[c], "none", Empty, "ok")]
    /\ watch' \in {watch, [kind |-> "delete", store |-> call[c].store, id |-> call[c].id,
                           val |-> 1, absent |-> call[c].absent]}
    /\ UNCHANGED <<app, configured, remoteUp, remote, netAttempted>>

\* ------------------------------------------------------------- getById()
GetByIdCall(c, s, id) ==
    /\ Free(c)
    /\ call' = [call EXCEPT ![c] = Begin("getById", s, id, 1)]
    /\ UNCHANGED <<app, configured, remoteUp, remote, local, localDb, netAttempted, watch>>

\* if (supabase) { select single; if (data) return data }
GetByIdCloud(c) ==
    /\ call[c].pc = "cloud" /\ call[c].op = "getById"
    /\ netAttempted' = (netAttempted \/ NetworkAttempt)
    /\ LET s == call[c].store
           id == call[c].id IN
       call' = [call EXCEPT ![c] =
                  IF RemoteAnswers /\ id \in DOMAIN remote[s]
                  THEN Resolve(call[c], "cloud", Put(Empty, id, remote[s][id]), "none")
                  ELSE [call[c] EXCEPT !.pc = "local"]]
    /\ UNCHANGED <<app, configured, remoteUp, remote, local, localDb, watch>>

GetByIdLocal(c) ==
    /\ call[c].pc = "local" /\ call[c].op = "getById"
    /\ localDb' = TRUE
    /\ LET s == call[c].store
           id == call[c].id IN
       call' = [call EXCEPT ![c] =
                  Resolve(call[c], "local",
                          IF id \in DOMAIN local[s] THEN Put(Empty, id, local[s][id]) ELSE Empty,
                          "ok")]
    /\ UNCHANGED <<app, configured, remoteUp, remote, local, netAttempted, watch>>

\* ------------------------------------------------------------ subscribe()
\* if (!supabase) return () => {}; otherwise a channel on the table is opened.
\* It is synchronous and reads and writes no record.
Subscribe(c, s) ==
    /\ Free(c)
    /\ netAttempted' = (netAttempted \/ NetworkAttempt)
    /\ call' = [call EXCEPT ![c] =
                  Resolve(Begin("subscribe", s, 1, 1),
                          IF NetworkAttempt THEN "channel" ELSE "none", Empty, "none")]
    /\ UNCHANGED <<app, configured, remoteUp, remote, local, localDb, watch>>

\* ---------------------------------------------------------------- db.auth
\* A user record's contents stand for its fields besides id: the username and
\* the password are two of them.
Username(v) == v % 2

Password(v) == v \div 2

\* The credentials typed into the login form: every username / password pair
\* that some user record can carry, and pairs that none carries.
Creds == 0..(NumVals + 1)

\* users.find(u => u.username === username && u.password === password)
Matching(users, k) ==
    {id \in DOMAIN users :
        Username(users[id]) = Username(k) /\ Password(users[id]) = Password(k)}

\* login: const users = await db.users.all()
LoginCall(k) ==
    /\ Free("ui")
    /\ task' = [NoTask EXCEPT !.name = "login", !.val = k]
    /\ call' = [call EXCEPT !["ui"] = Begin("all", "users", 1, 1)]
    /\ UNCHANGED <<pages, session, book, orig, configured, remoteUp, remote, local, localDb,
                   netAttempted, watch>>

\* login: return users.find(...) || null.  find gives the first match in the
\* order of the list, which for the Remote rows is not determined.
LoginReturn ==
    /\ task.name = "login" /\ Settled("ui", "all")
    /\ task' = NoTask
    /\ LET r == call["ui"]
           m == Matching(r.res, task.val) IN
       \/ /\ r.out = "resolved" /\ m = {}
          /\ call' = [call EXCEPT !["ui"] = [r EXCEPT !.op = "login", !.val = task.val, !.res = Empty]]
       \/ /\ r.out = "resolved"
          /\ \E id \in m :
                call' = [call EXCEPT !["ui"] =
                           [r EXCEPT !.op = "login", !.val = task.val,
                                     !.res = Put(Empty, id, r.res[id])]]
       \/ /\ r.out = "rejected"
          /\ call' = [call EXCEPT !["ui"] = [r EXCEPT !.op = "login", !.val = task.val]]
    /\ UNCHANGED <<pages, session, book, orig, configured, remoteUp, remote, local, localDb,
                   netAttempted, watch>>

\* getSession: const storedId = localStorage.getItem(...); if (!storedId)
\* return null
GetSessionNone ==
    /\ Free("ui")
    /\ session = NoSession
    /\ call' = [call EXCEPT !["ui"] =
                  Resolve(Begin("getSession", "users", NoSession, 1), "none", Empty, "none")]
    /\ UNCHANGED <<app, configured, remoteUp, remote, local, localDb, netAttempted, watch>>

\* getSession: return engine.getById(STORES.USERS, storedId)
GetSessionCall ==
    /\ Free("ui")
    /\ session # NoSession
    /\ task' = [NoTask EXCEPT !.name = "getSession", !.id = session]
    /\ call' = [call EXCEPT !["ui"] = Begin("getById", "users", session, 1)]
    /\ UNCHANGED <<pages, session, book, orig, configured, remoteUp, remote, local, localDb,
                   netAttempted, watch>>

\* getSession settles as its getById settled.
GetSessionReturn ==
    /\ task.name = "getSession" /\ Settled("ui", "getById")
    /\ task' = NoTask
    /\ call' = [call EXCEPT !["ui"].op = "getSession"]
    /\ UNCHANGED <<pages, session, book, orig, configured, remoteUp, remote, local, localDb,
                   netAttempted, watch>>

\* Variant: setSession(user) also saves the user record into the Local store.
SetSessionSaving(id, v) ==
    /\ Free("ui")
    /\ session' = id
    /\ local' = IF id = NoSession THEN local ELSE LocalPut("users", id, v)
    /\ call' = [call EXCEPT !["ui"] =
                  Resolve(Begin("setSession", "users", id, v), "none", Empty, "none")]
    /\ UNCHANGED <<pages, task, book, orig, configured, remoteUp, remote, localDb,
                   netAttempted, watch>>

\* setSession(user): setItem(key, user.id) for a user, removeItem(key) for
\* null (id = NoSession).  Synchronous.
SetSession(id, v) ==
    /\ Free("ui")
    /\ session' = id
    /\ call' = [call EXCEPT !["ui"] =
                  Resolve(Begin("setSession", "users", id, v), "none", Empty, "none")]
    /\ UNCHANGED <<pages, task, book, orig, configured, remoteUp, remote, local, localDb,
                   netAttempted, watch>>

\* -------------------------------------------------------------- db.settings
\* settings.save: engine.save(STORES.SETTINGS, { ...settings, id: 'current_config' })
SettingsSave(v) == SaveCall("ui", "settings", CurrentConfig, v)

\* ------------------------------------------------------------------ db.init
\* DEFAULT_USERS: one record, id 'u1'.
DefaultUserId == 1

DefaultUser == 1

\* DEFAULT_SETTINGS
DefaultSettings == 1

\* The settled promise of an operation of the db object.
Finish(o, outcome) == [Idle EXCEPT !.op = o, !.pc = "done", !.out = outcome]

InitCall ==
    /\ Free("ui")
    /\ watch' = NoWatch
    /\ task' = [NoTask EXCEPT !.name = "init", !.pc = "connect"]
    /\ call' = [call EXCEPT !["ui"] = Idle]
    /\ UNCHANGED <<pages, session, book, orig, configured, remoteUp, remote, local, localDb,
                   netAttempted>>

\* await engine.connectLocal(); const users = await db.users.all()
InitConnect ==
    /\ task.name = "init" /\ task.pc = "connect"
    /\ localDb' = TRUE
    /\ task' = [task EXCEPT !.pc = "users"]
    /\ call' = [call EXCEPT !["ui"] = Begin("all", "users", 1, 1)]
    /\ UNCHANGED <<pages, session, book, orig, configured, remoteUp, remote, local,
                   netAttempted, watch>>

\* if (users.length === 0) save the default user; then the getById of the
\* settings record.
InitUsers ==
    /\ task.name = "init" /\ task.pc = "users"
    /\ Settled("ui", "all") /\ call["ui"].out = "resolved"
    /\ IF call["ui"].res = Empty
       THEN /\ task' = [task EXCEPT !.pc = "seedUsers"]
            /\ call' = [call EXCEPT !["ui"] = Begin("save", "users", DefaultUserId, DefaultUser)]
            /\ watch' = Unwatch("users", DefaultUserId)
       ELSE /\ task' = [task EXCEPT !.pc = "settings"]
            /\ call' = [call EXCEPT !["ui"] = Begin("getById", "settings", CurrentConfig, 1)]
            /\ watch' = watch
    /\ UNCHANGED <<pages, session, book, orig, configured, remoteUp, remote, local, localDb,
                   netAttempted>>

\* const currentSettings = await engine.getById(STORES.SETTINGS, 'current_config')
InitUsersSeeded ==
    /\ task.name = "init" /\ task.pc = "seedUsers"
    /\ Settled("ui", "save") /\ call["ui"].out = "resolved"
    /\ task' = [task EXCEPT !.pc = "settings"]
    /\ call' = [call EXCEPT !["ui"] = Begin("getById", "settings", CurrentConfig, 1)]
    /\ UNCHANGED <<pages, session, book, orig, configured, remoteUp, remote, local, localDb,
                   netAttempted, watch>>

\* if (!currentSettings) await db.settings.save(DEFAULT_SETTINGS); otherwise
\* init is done.
InitSettings ==
    /\ task.name = "init" /\ task.pc = "settings"
    /\ Settled("ui", "getById") /\ call["ui"].out = "resolved"
    /\ IF call["ui"].res = Empty
       THEN /\ task' = [task EXCEPT !.pc = "seedSettings"]
            /\ call' = [call EXCEPT !["ui"] =
                          Begin("save", "settings", CurrentConfig, DefaultSettings)]
            /\ watch' = Unwatch("settings", CurrentConfig)
       ELSE /\ task' = NoTask
            /\ call' = [call EXCEPT !["ui"] = Finish("init", "resolved")]
            /\ watch' = watch
    /\ UNCHANGED <<pages, session, book, orig, configured, remoteUp, remote, local, localDb,
                   netAttempted>>

InitDone ==
    /\ task.name = "init" /\ task.pc = "seedSettings"
    /\ Settled("ui", "save") /\ call["ui"].out = "resolved"
    /\ task' = NoTask
    /\ call' = [call EXCEPT !["ui"] = Finish("init", "resolved")]
    /\ UNCHANGED <<pages, session, book, orig, configured, remoteUp, remote, local, localDb,
                   netAttempted, watch>>

\* An awaited call rejected: init rejects with it.
InitAbort ==
    /\ task.name = "init"
    /\ call["ui"].pc = "done" /\ call["ui"].out = "rejected"
    /\ task' = NoTask
    /\ call' = [call EXCEPT !["ui"] = Finish("init", "rejected")]
    /\ UNCHANGED <<pages, session, book, orig, configured, remoteUp, remote, local, localDb,
                   netAttempted, watch>>

\* connectLocal rejects (request.onerror), and init with it.
InitConnectFail ==
    /\ task.name = "init" /\ task.pc = "connect"
    /\ ~localDb
    /\ task' = NoTask
    /\ call' = [call EXCEPT !["ui"] = Finish("init", "rejected")]
    /\ UNCHANGED <<pages, session, book, orig, configured, remoteUp, remote, local, localDb,
                   netAttempted, watch>>

\* ---------------------------------------------------------------- db.system
\* Object.values(STORES), the order in which backup and restore go through the
\* collections.
StoreOrder == <<"users", "customers", "services", "jobs", "inventory", "settings">>

\* The collections whose records have an array-valued field (User.privileges,
\* Job.items).
NestedFields == {"users", "jobs"}

\* What a record's contents become on the way through a worksheet:
\* json_to_sheet takes an object-valued field for a cell object, so an array
\* leaves no cell value, and sheet_to_json with defval null reads null for it.
\* -v stands for the contents v with its array fields null.
Flatten(s, v) == IF s \in NestedFields /\ v > 0 THEN -v ELSE v

\* XLSX.utils.json_to_sheet(data), as sheet_to_json reads it back.
JsonToSheet(s, data) == [i \in DOMAIN data |-> Flatten(s, data[i])]

\* The sheet names of uploaded workbooks: entity sheets and a foreign one.
UploadSheets == {"users", "settings", "Sheet1"}

\* Workbooks a user may hand to restore besides the last backup.
Uploads ==
    {[s \in {n} |-> JsonToSheet(n, t)] : n \in UploadSheets, t \in [Ids -> Vals]}

\* Workbooks of one sheet and one row: a user, or the settings record.
RowUploads ==
    {[s \in {"users"} |-> JsonToSheet("users", Put(Empty, id, v))] : id \in Ids, v \in Vals}
    \cup {[s \in {"settings"} |-> JsonToSheet("settings", Put(Empty, CurrentConfig, v))] :
             v \in Vals}

\* The sheets of a workbook that restore looks up: workbook.Sheets[storeName].
Recognized(b) == DOMAIN b \cap Stores

\* The rows still to be saved: those of the sheets from position at on, after
\* the row `after` of the sheet at that position.
Pending(b, at, after) ==
    {p \in (at..Len(StoreOrder)) \X Ids :
        /\ StoreOrder[p[1]] \in DOMAIN b
        /\ p[2] \in DOMAIN b[StoreOrder[p[1]]]
        /\ p[1] > at \/ p[2] > after}

FirstRow(P) ==
    CHOOSE p \in P : \A q \in P : p[1] < q[1] \/ (p[1] = q[1] /\ p[2] <= q[2])

\* backup: const workbook = XLSX.utils.book_new(); the first engine.all
BackupCall ==
    /\ Free("ui")
    /\ book = NoBook
    /\ watch' = NoWatch
    /\ task' = [NoTask EXCEPT !.name = "backup", !.pc = "loop"]
    /\ orig' = [s \in Stores |-> Empty]
    /\ call' = [call EXCEPT !["ui"] = Begin("all", StoreOrder[1], 1, 1)]
    /\ UNCHANGED <<pages, session, book, configured, remoteUp, remote, local, localDb,
                   netAttempted>>

\* json_to_sheet, book_append_sheet, and the engine.all of the next store
BackupSheet ==
    /\ task.name = "backup" /\ task.at < Len(StoreOrder)
    /\ Settled("ui", "all") /\ call["ui"].out = "resolved"
    /\ LET s == StoreOrder[task.at]
           data == call["ui"].res IN
       /\ task' = [task EXCEPT !.at = @ + 1,
                               !.book = [n \in DOMAIN @ \cup {s} |->
                                           IF n = s THEN JsonToSheet(s, data) ELSE @[n]]]
       /\ orig' = [orig EXCEPT ![s] = data]
    /\ call' = [call EXCEPT !["ui"] = Begin("all", StoreOrder[task.at + 1], 1, 1)]
    /\ UNCHANGED <<pages, session, book, configured, remoteUp, remote, local, localDb,
                   netAttempted, watch>>

\* The last sheet; XLSX.write and the download of the workbook.
BackupWrite ==
    /\ task.name = "backup" /\ task.at = Len(StoreOrder)
    /\ Settled("ui", "all") /\ call["ui"].out = "resolved"
    /\ LET s == StoreOrder[task.at]
           data == call["ui"].res IN
       /\ book' = [n \in DOMAIN task.book \cup {s} |->
                      IF n = s THEN JsonToSheet(s, data) ELSE task.book[n]]
       /\ orig' = [orig EXCEPT ![s] = data]
    /\ task' = NoTask
    /\ call' = [call EXCEPT !["ui"] = Finish("backup", "resolved")]
    /\ UNCHANGED <<pages, session, configured, remoteUp, remote, local, localDb,
                   netAttempted, watch>>

\* An engine.all rejected: backup rejects with it and writes no file.
BackupAbort ==
    /\ task.name = "backup"
    /\ Settled("ui", "all") /\ call["ui"].out = "rejected"
    /\ task' = NoTask
    /\ call' = [call EXCEPT !["ui"] = Finish("backup", "rejected")]
    /\ UNCHANGED <<pages, session, book, orig, configured, remoteUp, remote, local, localDb,
                   netAttempted, watch>>

\* restore(file): reader.readAsArrayBuffer(file).  fresh: the file is the
\* last backup and every collection is empty in both stores.
RestoreCall(b) ==
    /\ Free("ui")
    /\ watch' = NoWatch
    /\ task' = [NoTask EXCEPT !.name = "restore", !.pc = "read", !.book = b,
                              !.fresh = /\ b = book
                                        /\ \A s \in Stores : local[s] = Empty /\ remote[s] = Empty]
    /\ call' = [call EXCEPT !["ui"] = Idle]
    /\ UNCHANGED <<pages, session, book, orig, configured, remoteUp, remote, local, localDb,
                   netAttempted>>

\* restore of the file that the last backup downloaded.
RestoreLast ==
    /\ book # NoBook
    /\ RestoreCall(book)

\* Variant: the collections that have a sheet are emptied before the rows
\* are written (the whole collection is replaced by the sheet).
RestoreLoadReplacing ==
    /\ task.name = "restore" /\ task.pc = "read"
    /\ task' = [task EXCEPT !.pc = "loop", !.at = 1, !.id = 0]
    /\ local' = [s \in Stores |-> IF s \in DOMAIN task.book THEN Empty ELSE local[s]]
    /\ UNCHANGED <<pages, session, book, orig, configured, remoteUp, remote, localDb,
                   call, netAttempted, watch>>

\* reader.onload: XLSX.read gives the workbook; the loop starts at the first
\* store, before its first row.
RestoreLoad ==
    /\ task.name = "restore" /\ task.pc = "read"
    /\ task' = [task EXCEPT !.pc = "loop", !.at = 1, !.id = 0]
    /\ UNCHANGED <<pages, session, book, orig, configured, remoteUp, remote, local, localDb,
                   call, netAttempted, watch>>

\* for (const item of jsonData) await engine.save(storeName, item)
RestoreRow ==
    /\ task.name = "restore" /\ task.pc = "loop"
    /\ call["ui"].pc \in {"idle", "done"} /\ call["ui"].out # "rejected"
    /\ Pending(task.book, task.at, task.id) # {}
    /\ LET p == FirstRow(Pending(task.book, task.at, task.id))
           s == StoreOrder[p[1]] IN
       /\ task' = [task EXCEPT !.at = p[1], !.id = p[2]]
       /\ call' = [call EXCEPT !["ui"] = Begin("save", s, p[2], task.book[s][p[2]])]
       /\ watch' = Unwatch(s, p[2])
    /\ UNCHANGED <<pages, session, book, orig, configured, remoteUp, remote, local, localDb,
                   netAttempted>>

\* resolve(true) after the loops
RestoreDone ==
    /\ task.name = "restore" /\ task.pc = "loop"
    /\ call["ui"].pc \in {"idle", "done"} /\ call["ui"].out # "rejected"
    /\ Pending(task.book, task.at, task.id) = {}
    /\ task' = NoTask
    /\ call' = [call EXCEPT !["ui"] = Finish("restore", "resolved")]
    /\ UNCHANGED <<pages, session, book, orig, configured, remoteUp, remote, local, localDb,
                   netAttempted, watch>>

\* catch (err) { reject(err) }: a save of the loop rejected.
RestoreAbort ==
    /\ task.name = "restore" /\ task.pc = "loop"
    /\ call["ui"].pc = "done" /\ call["ui"].out = "rejected"
    /\ task' = NoTask
    /\ call' = [call EXCEPT !["ui"] = Finish("restore", "rejected")]
    /\ UNCHANGED <<pages, session, book, orig, configured, remoteUp, remote, local, localDb,
                   netAttempted, watch>>

\* catch (err) { reject(err) }: XLSX.read threw, the file is no workbook.
RestoreParseFail ==
    /\ task.name = "restore" /\ task.pc = "read"
    /\ task' = NoTask
    /\ call' = [call EXCEPT !["ui"] = Finish("restore", "rejected")]
    /\ UNCHANGED <<pages, session, book, orig, configured, remoteUp, remote, local, localDb,
                   netAttempted, watch>>

\* The file cannot be read: the reader fires its error event instead of load.
\* restore sets no reader.onerror, so neither resolve nor reject is called.
RestoreReadFail ==
    /\ task.name = "restore" /\ task.pc = "read"
    /\ task' = [task EXCEPT !.pc = "lost"]
    /\ UNCHANGED <<pages, session, book, orig, configured, remoteUp, remote, local, localDb,
                   call, netAttempted, watch>>

\* The exported workbook is carried to a fresh installation: empty object
\* stores (onupgradeneeded), empty tables, no session, nothing cached.
FreshInstall ==
    /\ Free("ui")
    /\ book # NoBook
    /\ local' = [s \in Stores |-> Empty]
    /\ remote' = [s \in Stores |-> Empty]
    /\ localDb' = FALSE
    /\ session' = NoSession
    /\ call' = [c \in Callers |-> Idle]
    /\ watch' = NoWatch
    /\ UNCHANGED <<pages, task, book, orig, configured, remoteUp, netAttempted>>

\* ------------------------------------------------------- Local failures
\* indexedDB.open fails (request.onerror): connectLocal rejects, and so does
\* the call that awaits it.  A cached connection is never opened again.
ConnectLocalFail(c) ==
    /\ call[c].pc = "local"
    /\ ~localDb
    /\ call' = [call EXCEPT ![c] = Reject(call[c], "open")]
    /\ UNCHANGED <<app, configured, remoteUp, remote, local, localDb, netAttempted, watch>>

\* A put of the refresh fails: nobody handles the request's error, the
\* transaction aborts, and all() has returned cloudData all the same.
AllRefreshAbort(c) ==
    /\ call[c].pc = "local" /\ call[c].op = "all" /\ call[c].cloudOk
    /\ localDb' = TRUE
    /\ call' = [call EXCEPT ![c] = Resolve(call[c], "cloud", call[c].cloud, "request")]
    /\ UNCHANGED <<app, configured, remoteUp, remote, local, netAttempted, watch>>

\* request.onerror = () => resolve([])
AllLocalError(c) ==
    /\ call[c].pc = "local" /\ call[c].op = "all" /\ ~call[c].cloudOk
    /\ localDb' = TRUE
    /\ call' = [call EXCEPT ![c] = Resolve(call[c], "local", Empty, "request")]
    /\ UNCHANGED <<app, configured, remoteUp, remote, local, netAttempted, watch>>

\* request.onerror = () => reject(...) of save and of delete
WriteLocalError(c) ==
    /\ call[c].pc = "local" /\ call[c].op \in {"save", "delete"}
    /\ localDb' = TRUE
    /\ call' = [call EXCEPT ![c] = Reject(call[c], "request")]
    /\ UNCHANGED <<app, configured, remoteUp, remote, local, netAttempted, watch>>

\* request.onerror = () => resolve(null)
GetByIdLocalError(c) ==
    /\ call[c].pc = "local" /\ call[c].op = "getById"
    /\ localDb' = TRUE
    /\ call' = [call EXCEPT ![c] = Resolve(call[c], "local", Empty, "request")]
    /\ UNCHANGED <<app, configured, remoteUp, remote, local, netAttempted, watch>>

\* ------------------------------------------------------ Remote exceptions
\* A Remote request may fail by an error result ({ data: null, error }) or by
\* an exception (a rejected promise).  cloudAll, cloudSave and cloudDelete run
\* inside try/catch and turn both into null / false, which is what AllCloud,
\* SaveCloud and DeleteCloud do when the Remote does not answer.  getById
\* awaits its select outside any try/catch: an error result leaves data null
\* and falls through to the Local store (GetByIdCloud), an exception rejects
\* getById.
GetByIdCloudThrows(c) ==
    /\ call[c].pc = "cloud" /\ call[c].op = "getById"
    /\ NetworkAttempt /\ ~remoteUp
    /\ netAttempted' = TRUE
    /\ call' = [call EXCEPT ![c] = [Reject(call[c], "none") EXCEPT !.src = "remote"]]
    /\ UNCHANGED <<app, configured, remoteUp, remote, local, localDb, watch>>

\* ----------------------------------------------------------- environment
\* The network or the backend goes away or comes back.
RemoteFlip ==
    /\ configured
    /\ remoteUp' = ~remoteUp
    /\ UNCHANGED <<app, configured, remote, local, localDb, call, netAttempted, watch>>

\* ------------------------------------------------- the job forms (pages)
MaxItems == 2
MaxQuantity == 2
MaxPrice == 1
MaxDiscount == 1
MaxPaid == 2

\* JobStatus
JobStatuses == {"PENDING", "IN_PROGRESS", "COMPLETED", "CANCELLED"}

\* What the number inputs of the staging area and of "cash received" can hold.
Quantities == 1..MaxQuantity

Prices == 0..MaxPrice

Discounts == 0..MaxDiscount

Paids == -1..MaxPaid

Max(a, b) == IF a >= b THEN a ELSE b

\* items.reduce((sum, item) => sum + (item.unitPrice * item.quantity), 0)
RECURSIVE Gross(_)
Gross(items) ==
    IF items = <<>> THEN 0
    ELSE Head(items).unitPrice * Head(items).quantity + Gross(Tail(items))

\* items.reduce((sum, item) => sum + item.discount, 0)
RECURSIVE TotalDiscount(_)
TotalDiscount(items) ==
    IF items = <<>> THEN 0 ELSE Head(items).discount + TotalDiscount(Tail(items))

\* netTotal = grossTotal - totalDiscount
NetTotal(items) == Gross(items) - TotalDiscount(items)

\* pendingAmount = Math.max(0, netTotal - paidAmount)
PendingAmount(items, paid) == Max(0, NetTotal(items) - paid)

\* Variant: the PARTIAL branch is missing.
PaymentStatusNoPartial(balance, paid) == IF balance = 0 THEN "PAID" ELSE "UNPAID"

\* balance === 0 ? 'PAID' : paidAmount > 0 ? 'PARTIAL' : 'UNPAID'
PaymentStatusOf(balance, paid) ==
    IF balance = 0 THEN "PAID" ELSE IF paid > 0 THEN "PARTIAL" ELSE "UNPAID"

\* The overall status that handleSave and handleItemStatusUpdate derive.
OverallStatus(items) ==
    IF \A i \in DOMAIN items : items[i].status = "COMPLETED" THEN "COMPLETED"
    ELSE IF \E i \in DOMAIN items : items[i].status \in {"IN_PROGRESS", "COMPLETED"}
         THEN "IN_PROGRESS"
    ELSE IF \A i \in DOMAIN items : items[i].status = "CANCELLED" THEN "CANCELLED"
    ELSE "PENDING"

\* JobManagement: the effect that keeps currentItem.subtotal.
JobSubtotal(q, u, d) == Max(0, q * u - d)

\* InvoicePage: currentSubtotal
InvoiceSubtotal(q, u, d) == q * u - d

\* JobManagement.openModal(): an empty form.
JobOpen ==
    /\ Blank(form)
    /\ form' = BlankForm("jobs")
    /\ job' = NoJob
    /\ UNCHANGED <<store, customersPage, chan>>

\* JobManagement.openModal(job): setFormData(job).  The effect on
\* totals.netTotal sets totalAmount when the net total differs from that of
\* the previous render, which is the one of the form last filled in.
JobEdit ==
    /\ Blank(form) /\ ~Blank(job)
    /\ \E total \in {job.totalAmount, NetTotal(job.items)} :
          form' = [page |-> "jobs", items |-> job.items, paid |-> job.paidAmount,
                   status |-> job.status, total |-> total]
    /\ job' = NoJob
    /\ UNCHANGED <<store, customersPage, chan>>

\* handleAddStagedItem, and the effect that sets totalAmount to the net total.
JobAddItem(q, u, d, st) ==
    /\ ~Blank(form) /\ form.page = "jobs" /\ Len(form.items) < MaxItems
    /\ LET item == [quantity |-> q, unitPrice |-> u, discount |-> d,
                    subtotal |-> JobSubtotal(q, u, d), status |-> st]
           items == Append(form.items, item) IN
       form' = [form EXCEPT !.items = items, !.total = NetTotal(items)]
    /\ UNCHANGED <<job, store, customersPage, chan>>

\* The "cash received" input: setFormData({...formData, paidAmount}).
JobSetPaid(p) ==
    /\ ~Blank(form) /\ form.page = "jobs"
    /\ form' = [form EXCEPT !.paid = p]
    /\ UNCHANGED <<job, store, customersPage, chan>>

\* JobManagement.handleSave: the job handed to db.jobs.save, and closeModal.
JobSave ==
    /\ ~Blank(form) /\ form.page = "jobs" /\ form.items # <<>>
    /\ LET balance == PendingAmount(form.items, form.paid) IN
       job' = [by |-> "handleSave", items |-> form.items,
               status |-> OverallStatus(form.items),
               paymentStatus |-> PaymentStatusOf(balance, form.paid),
               discount |-> 0, totalAmount |-> form.total, paidAmount |-> form.paid,
               balance |-> balance]
    /\ form' = NoForm
    /\ UNCHANGED <<store, customersPage, chan>>

\* JobManagement.handleItemStatusUpdate(job, itemIndex, newStatus)
ItemStatusUpdate(i, st) ==
    /\ Blank(form) /\ ~Blank(job)
    /\ i \in DOMAIN job.items
    /\ LET newItems == [job.items EXCEPT ![i].status = st] IN
       job' = [job EXCEPT !.by = "handleItemStatusUpdate", !.items = newItems,
                          !.status = OverallStatus(newItems)]
    /\ UNCHANGED <<form, store, customersPage, chan>>

\* InvoicePage: resetForm and the CREATE view.
InvoiceOpen ==
    /\ Blank(form)
    /\ form' = BlankForm("invoice")
    /\ job' = NoJob
    /\ UNCHANGED <<store, customersPage, chan>>

\* InvoicePage.handleEdit(job)
InvoiceEdit ==
    /\ Blank(form) /\ ~Blank(job)
    /\ form' = [page |-> "invoice", items |-> job.items, paid |-> job.paidAmount,
                status |-> job.status, total |-> 0]
    /\ job' = NoJob
    /\ UNCHANGED <<store, customersPage, chan>>

\* The status select of the invoice form: setStatus
InvoiceSetStatus(st) ==
    /\ ~Blank(form) /\ form.page = "invoice"
    /\ form' = [form EXCEPT !.status = st]
    /\ UNCHANGED <<job, store, customersPage, chan>>

\* addServiceToList: the new item takes the status the form shows.
InvoiceAddItem(q, u, d) ==
    /\ ~Blank(form) /\ form.page = "invoice" /\ Len(form.items) < MaxItems
    /\ form' = [form EXCEPT !.items =
                   Append(@, [quantity |-> q, unitPrice |-> u, discount |-> d,
                              subtotal |-> InvoiceSubtotal(q, u, d),
                              status |-> form.status])]
    /\ UNCHANGED <<job, store, customersPage, chan>>

\* setPaidAmount
InvoiceSetPaid(p) ==
    /\ ~Blank(form) /\ form.page = "invoice"
    /\ form' = [form EXCEPT !.paid = p]
    /\ UNCHANGED <<job, store, customersPage, chan>>

\* InvoicePage.handleCommitInvoice: the job handed to db.jobs.save, resetForm.
InvoiceCommit ==
    /\ ~Blank(form) /\ form.page = "invoice" /\ form.items # <<>>
    /\ LET balance == PendingAmount(form.items, form.paid) IN
       job' = [by |-> "handleCommitInvoice", items |-> form.items,
               status |-> form.status,
               paymentStatus |-> PaymentStatusOf(balance, form.paid),
               discount |-> TotalDiscount(form.items),
               totalAmount |-> NetTotal(form.items), paidAmount |-> form.paid,
               balance |-> balance]
    /\ form' = NoForm
    /\ UNCHANGED <<store, customersPage, chan>>

\* ------------------------------------------- the customer screen (pages)
\* "Aadhaar Number must be exactly 12 digits."
AadhaarLength == 12

MaxSpaces == 1

\* What the Aadhaar field of the form, or a cell of an imported sheet, can hold.
Aadhaars ==
    {[digits |-> d, spaces |-> k] :
        d \in {0, AadhaarLength - 1, AadhaarLength, AadhaarLength + 1}, k \in 0..MaxSpaces}

\* What the name field, or the name cell of an imported row, can hold.
Names == {"", "Unknown", "Asha"}

\* aadhaarNumber.length
Length(a) == a.digits + a.spaces

\* .replace(/\s/g, '')
StripSpaces(a) == [a EXCEPT !.spaces = 0]

\* What no step of the customer screen changes.
records == <<configured, remoteUp, remote, local, localDb, netAttempted,
             session, task, book, orig>>

\* The caller can run a handler of the customer screen.
Ready(c) == c \notin DOMAIN handler /\ Free(c)

\* 'c' + Date.now(): an id that no record carries.
Unused(id) ==
    /\ id \notin DOMAIN shown
    /\ id \notin DOMAIN local["customers"]
    /\ id \notin DOMAIN remote["customers"]
    /\ \A c \in Callers :
          c \in DOMAIN handler => call[c].id # id /\ id \notin DOMAIN handler[c].snap

\* CustomerManagement.handleSave up to its await: the two checks, the
\* optimistic update of the list, closeModal, and the call of save.  The id
\* is that of the customer being edited, or a new one.
HandleSave(c, id, v, name, a) ==
    /\ Ready(c)
    /\ id \in DOMAIN shown \/ Unused(id)
    /\ IF name = "" \/ (Length(a) > 0 /\ Length(a) # AadhaarLength)
       THEN UNCHANGED <<call, watch, customersPage, chan>>
       ELSE /\ shown' = Put(shown, id, v)
            /\ sent' = [by |-> "handleSave", aadhaar |-> a]
            /\ handler' = Put(handler, c, [name |-> "save", snap |-> Empty])
            /\ call' = [call EXCEPT ![c] = Begin("save", "customers", id, v)]
            /\ watch' = Unwatch("customers", id)
    /\ UNCHANGED <<records, jobsPage, chan>>

\* fetchCustomers up to its await.
FetchCustomers(c) ==
    /\ handler' = Put(handler, c, [name |-> "fetch", snap |-> Empty])
    /\ call' = [call EXCEPT ![c] = Begin("all", "customers", 1, 1)]

\* handleSave after its await: on rejection, fetchCustomers.
HandleSaveSettled(c) ==
    /\ c \in DOMAIN handler /\ handler[c].name = "save" /\ call[c].pc = "done"
    /\ IF call[c].out = "rejected"
       THEN FetchCustomers(c)
       ELSE handler' = Delete(handler, c) /\ UNCHANGED call
    /\ UNCHANGED <<records, jobsPage, chan, watch, shown, sent>>

\* fetchCustomers after its await: setCustomers(data), or the catch.
FetchCustomersSettled(c) ==
    /\ c \in DOMAIN handler /\ handler[c].name = "fetch" /\ call[c].pc = "done"
    /\ shown' = IF call[c].out = "resolved" THEN call[c].res ELSE shown
    /\ handler' = Delete(handler, c)
    /\ UNCHANGED <<records, jobsPage, chan, call, watch, sent>>

\* handleDelete up to its await: the snapshot, the optimistic removal, and
\* the call of delete.
HandleDelete(c, id) ==
    /\ Ready(c)
    /\ id \in DOMAIN shown
    /\ handler' = Put(handler, c, [name |-> "delete", snap |-> shown])
    /\ shown' = Delete(shown, id)
    /\ call' = [call EXCEPT ![c] =
                  [Begin("delete", "customers", id, 1) EXCEPT
                      !.absent = (id \notin DOMAIN local["customers"]
                                  /\ id \notin DOMAIN remote["customers"])]]
    /\ watch' = Unwatch("customers", id)
    /\ UNCHANGED <<records, jobsPage, chan, sent>>

\* handleDelete after its await: on rejection, setCustomers(originalCustomers).
HandleDeleteSettled(c) ==
    /\ c \in DOMAIN handler /\ handler[c].name = "delete" /\ call[c].pc = "done"
    /\ shown' = IF call[c].out = "rejected" THEN handler[c].snap ELSE shown
    /\ handler' = Delete(handler, c)
    /\ UNCHANGED <<records, jobsPage, chan, call, watch, sent>>

\* handleImportExcel, one turn of its loop: the row is mapped to a customer
\* (a missing name becomes 'Unknown', white space is taken out of the
\* Aadhaar number) and saved unless its name is 'Unknown'.
ImportRow(c, id, v, name, a) ==
    /\ \/ Ready(c)
       \/ c \in DOMAIN handler /\ handler[c].name = "import" /\ call[c].pc = "done" /\ call[c].out = "resolved"
    /\ id \in DOMAIN local["customers"] \/ Unused(id)
    /\ IF name \in {"", "Unknown"}
       THEN UNCHANGED <<call, watch, customersPage, chan>>
       ELSE /\ sent' = [by |-> "handleImportExcel", aadhaar |-> StripSpaces(a)]
            /\ handler' = Put(handler, c, [name |-> "import", snap |-> Empty])
            /\ call' = [call EXCEPT ![c] = Begin("save", "customers", id, v)]
            /\ watch' = Unwatch("customers", id)
            /\ UNCHANGED shown
    /\ UNCHANGED <<records, jobsPage, chan>>

\* handleImportExcel after its last row: fetchCustomers; or its catch, when
\* a save rejected.
ImportSettled(c) ==
    /\ c \in DOMAIN handler /\ handler[c].name = "import" /\ call[c].pc = "done"
    /\ IF call[c].out = "rejected"
       THEN handler' = Delete(handler, c) /\ UNCHANGED call
       ELSE FetchCustomers(c)
    /\ UNCHANGED <<records, jobsPage, chan, watch, shown, sent>>

\* ------------------------------------------------ realtime subscriptions
MaxEvents == 2

\* subscribe(table, callback): without a client the result is () => {};
\* otherwise a channel is made, the listener that calls callback is bound to
\* every postgres_changes event of the table, and .subscribe() sends the join
\* without waiting for its acknowledgement.
SubscribeChannel(s) ==
    [state |-> IF configured THEN "joining" ELSE "noop", events |-> 0, invoked |-> 0,
     late |-> FALSE]

\* The returned function: supabase?.removeChannel(channel), not awaited.  It
\* sends the leave; on a channel that is leaving or closed, and on the no-op
\* result, it changes nothing.
Unsubscribed(ch) ==
    [ch EXCEPT !.state = IF @ \in {"joining", "joined"} THEN "leaving" ELSE @]

\* useEffect of JobManagement: the three subscriptions made on mount.
Mount ==
    /\ Blank(chan)
    /\ chan' = [s \in Watched |-> SubscribeChannel(s)]
    /\ netAttempted' = (netAttempted \/ NetworkAttempt)
    /\ UNCHANGED <<configured, remoteUp, remote, local, localDb, call, watch,
                   session, task, book, orig, jobsPage, customersPage>>

\* The cleanup of the effect: the three unsubscribe functions are called.
Unmount ==
    /\ ~Blank(chan)
    /\ \A s \in Watched : chan[s].state \in {"noop", "joining", "joined"}
    /\ chan' = [s \in Watched |-> Unsubscribed(chan[s])]
    /\ UNCHANGED <<store, jobsPage, customersPage>>

\* An unsubscribe function is called once more.
UnsubscribeAgain(s) ==
    /\ s \in DOMAIN chan /\ chan[s].state \in {"noop", "leaving", "closed"}
    /\ chan' = [chan EXCEPT ![s] = Unsubscribed(@)]
    /\ UNCHANGED <<store, jobsPage, customersPage>>

\* The backend acknowledges the join: the channel now receives the events.
Joined(s) ==
    /\ s \in DOMAIN chan /\ chan[s].state = "joining" /\ remoteUp
    /\ chan' = [chan EXCEPT ![s].state = "joined"]
    /\ UNCHANGED <<store, jobsPage, customersPage>>

\* The backend acknowledges the leave: the channel is closed and removed.
Left(s) ==
    /\ s \in DOMAIN chan /\ chan[s].state = "leaving" /\ remoteUp
    /\ chan' = [chan EXCEPT ![s].state = "closed"]
    /\ UNCHANGED <<store, jobsPage, customersPage>>

\* Some client inserts, updates or deletes a row of the table in the Remote.
\* The event reaches the channel when the backend serves it and the network
\* is up, and the listener calls callback(): once.
RowEvent(s) ==
    /\ configured
    /\ s \in DOMAIN chan /\ chan[s].state \in {"joining", "joined", "leaving"}
    /\ chan[s].events < MaxEvents /\ chan[s].invoked < MaxEvents
    /\ LET subscribed == chan[s].state \in {"joining", "joined"}
           received == remoteUp /\ chan[s].state \in {"joined", "leaving"} IN
       chan' = [chan EXCEPT ![s] =
                  [@ EXCEPT !.events = IF subscribed THEN @ + 1 ELSE @,
                            !.invoked = IF received THEN @ + 1 ELSE @,
                            !.late = @ \/ (received /\ ~subscribed)]]
    /\ UNCHANGED <<store, jobsPage, customersPage>>

\* ------------------------------------------------------- specifications
Engine(c) ==
    \/ \E s \in Served : AllCall(c, s)
    \/ AllCloud(c)
    \/ AllRefresh(c)
    \/ AllLocal(c)
    \/ \E s \in Served, id \in Ids, v \in Vals : SaveCall(c, s, id, v)
    \/ SaveCloud(c)
    \/ SaveLocal(c)
    \/ \E s \in Served, id \in Ids : DeleteCall(c, s, id)
    \/ DeleteCloud(c)
    \/ DeleteLocal(c)
    \/ \E s \in Served, id \in Ids : GetByIdCall(c, s, id)
    \/ GetByIdCloud(c)
    \/ GetByIdLocal(c)
    \/ \E s \in Served : Subscribe(c, s)

LocalFault(c) ==
    \/ ConnectLocalFail(c)
    \/ AllRefreshAbort(c)
    \/ AllLocalError(c)
    \/ WriteLocalError(c)
    \/ GetByIdLocalError(c)

\* One caller that awaits each call before the next; the Remote comes and
\* goes; the Local store works.
Next == Engine("ui") \/ RemoteFlip

Spec == Init /\ [][Next]_vars

\* The same, with a Local store that may fail to open or fail a request.
NextLocalFaults == Engine("ui") \/ LocalFault("ui") \/ RemoteFlip

SpecLocalFaults == Init /\ [][NextLocalFaults]_vars

\* Spec, where a failing Remote request may also throw.
NextRemoteThrows == Engine("ui") \/ GetByIdCloudThrows("ui") \/ RemoteFlip

SpecRemoteThrows == Init /\ [][NextRemoteThrows]_vars

\* User management, login and the session pointer, over the users collection.
Auth ==
    \/ \E id \in Ids, v \in Vals : SaveCall("ui", "users", id, v)
    \/ \E id \in Ids : DeleteCall("ui", "users", id)
    \/ \E k \in Creds : LoginCall(k)
    \/ LoginReturn
    \/ GetSessionNone
    \/ GetSessionCall
    \/ GetSessionReturn
    \/ \E id \in Ids, v \in Vals : SetSession(id, v)
    \/ SetSession(NoSession, 1)

EngineSteps(c) ==
    \/ AllCloud(c)
    \/ AllRefresh(c)
    \/ AllLocal(c)
    \/ SaveCloud(c)
    \/ SaveLocal(c)
    \/ DeleteCloud(c)
    \/ DeleteLocal(c)
    \/ GetByIdCloud(c)
    \/ GetByIdLocal(c)

NextAuth == Auth \/ EngineSteps("ui") \/ RemoteFlip

SpecAuth == Init /\ [][NextAuth]_vars

\* Saving users and moving the session pointer, under a Remote that comes
\* and goes.
NextSession ==
    \/ \E id \in Ids, v \in Vals : SaveCall("ui", "users", id, v)
    \/ GetSessionNone
    \/ GetSessionCall
    \/ GetSessionReturn
    \/ \E id \in Ids, v \in Vals : SetSession(id, v)
    \/ SetSession(NoSession, 1)
    \/ SaveCloud("ui")
    \/ SaveLocal("ui")
    \/ GetByIdCloud("ui")
    \/ GetByIdLocal("ui")
    \/ RemoteFlip

SpecSession == Init /\ [][NextSession]_vars

\* db.init, step by step.
Startup ==
    \/ InitCall
    \/ InitConnect
    \/ InitUsers
    \/ InitUsersSeeded
    \/ InitSettings
    \/ InitDone

\* db.system.backup, step by step.
Export ==
    \/ BackupCall
    \/ BackupSheet
    \/ BackupWrite

\* The steps of db.system.restore once it has been called.
Import ==
    \/ RestoreLoad
    \/ RestoreRow
    \/ RestoreDone

\* The engine steps of the calls that init, backup and restore make.
SystemSteps(c) ==
    \/ AllCloud(c)
    \/ AllRefresh(c)
    \/ AllLocal(c)
    \/ SaveCloud(c)
    \/ SaveLocal(c)
    \/ GetByIdCloud(c)
    \/ GetByIdLocal(c)

\* The Remote is absent, or configured and reachable, throughout.
InitSystem == Init /\ remoteUp = configured

\* Startup, settings, user deletion, backup and restore (of the last backup
\* or of an uploaded workbook), with a working Local store and file reader.
NextSystem ==
    \/ Startup
    \/ Export
    \/ \E b \in Uploads : RestoreCall(b)
    \/ RestoreLast
    \/ Import
    \/ FreshInstall
    \/ \E v \in Vals : SettingsSave(v)
    \/ \E id \in Ids : DeleteCall("ui", "users", id)
    \/ DeleteCloud("ui")
    \/ DeleteLocal("ui")
    \/ SystemSteps("ui")

SpecSystem == InitSystem /\ [][NextSystem]_vars

\* What goes wrong above the engine: the Local database does not open for
\* init, an awaited call rejects, the file is unreadable or is no workbook.
SystemFault ==
    \/ InitConnectFail
    \/ InitAbort
    \/ BackupAbort
    \/ RestoreAbort
    \/ RestoreParseFail
    \/ RestoreReadFail

\* Startup, backup and restore of an uploaded workbook, where the Local store
\* may fail to open or fail a request and the file may fail to load.
NextSystemFaults ==
    \/ Startup
    \/ Export
    \/ \E b \in Uploads : RestoreCall(b)
    \/ Import
    \/ SystemSteps("ui")
    \/ LocalFault("ui")
    \/ SystemFault

SpecSystemFaults == InitSystem /\ [][NextSystemFaults]_vars

\* What a record's contents can be: as saved, or as read from a worksheet.
Cells == Vals \cup {-v : v \in Vals}

Rows == UNION {[D -> Cells] : D \in SUBSET Ids}

\* The Remote plays no part in the forms.
InitForms == Init /\ ~configured /\ ~remoteUp

\* The two job forms and the status select of the task list, with every
\* status an item can be given.
NextJobs ==
    \/ JobOpen
    \/ JobEdit
    \/ \E q \in Quantities, u \in Prices, d \in Discounts, st \in JobStatuses :
          JobAddItem(q, u, d, st)
    \/ \E p \in Paids : JobSetPaid(p)
    \/ JobSave
    \/ \E i \in 1..MaxItems, st \in JobStatuses : ItemStatusUpdate(i, st)
    \/ InvoiceOpen
    \/ InvoiceEdit
    \/ \E st \in JobStatuses : InvoiceSetStatus(st)
    \/ \E q \in Quantities, u \in Prices, d \in Discounts : InvoiceAddItem(q, u, d)
    \/ \E p \in Paids : InvoiceSetPaid(p)
    \/ InvoiceCommit

SpecJobs == InitForms /\ [][NextJobs]_vars

\* The two job forms where every item is pending: the amounts alone vary.
NextJobAmounts ==
    \/ JobOpen
    \/ JobEdit
    \/ \E q \in Quantities, u \in Prices, d \in Discounts : JobAddItem(q, u, d, "PENDING")
    \/ \E p \in Paids : JobSetPaid(p)
    \/ JobSave
    \/ InvoiceOpen
    \/ InvoiceEdit
    \/ \E q \in Quantities, u \in Prices, d \in Discounts : InvoiceAddItem(q, u, d)
    \/ \E p \in Paids : InvoiceSetPaid(p)
    \/ InvoiceCommit

SpecJobAmounts == InitForms /\ [][NextJobAmounts]_vars

\* The handlers of the customer screen, as either caller.
CustomerScreen(c) ==
    \/ \E id \in Ids, v \in Vals, name \in Names, a \in Aadhaars : HandleSave(c, id, v, name, a)
    \/ HandleSaveSettled(c)
    \/ FetchCustomersSettled(c)
    \/ \E id \in Ids : HandleDelete(c, id)
    \/ HandleDeleteSettled(c)
    \/ \E id \in Ids, v \in Vals, name \in Names, a \in Aadhaars : ImportRow(c, id, v, name, a)
    \/ ImportSettled(c)

\* The steps of the engine calls that the customer screen makes.
CustomerSteps(c) ==
    \/ AllCloud(c)
    \/ AllRefresh(c)
    \/ AllLocal(c)
    \/ SaveCloud(c)
    \/ SaveLocal(c)
    \/ DeleteCloud(c)
    \/ DeleteLocal(c)
    \/ WriteLocalError(c)

\* The customer screen used by one caller, each handler awaited before the
\* next, over a Remote that is either absent or reachable and a Local store
\* that may fail a write.
NextCustomers == CustomerScreen("ui") \/ CustomerSteps("ui")

SpecCustomers == InitSystem /\ [][NextCustomers]_vars

\* The customer is another one than those of the handlers awaiting a call.
Another(id) == \A c \in Callers : c \in DOMAIN handler => call[c].id # id

\* The form save and the delete button of the customer screen, as either
\* caller, each used on another customer than the one a pending handler is
\* about.
SaveAnother(c, id, v) == Another(id) /\ HandleSave(c, id, v, "Asha", NoAadhaar)

DeleteAnother(c, id) == Another(id) /\ HandleDelete(c, id)

Optimistic(c) ==
    \/ \E id \in Ids, v \in Vals : SaveAnother(c, id, v)
    \/ HandleSaveSettled(c)
    \/ FetchCustomersSettled(c)
    \/ \E id \in Ids : DeleteAnother(c, id)
    \/ HandleDeleteSettled(c)

\* The steps of the engine calls they make when no Remote is configured.
OptimisticSteps(c) ==
    \/ AllCloud(c)
    \/ AllLocal(c)
    \/ SaveCloud(c)
    \/ SaveLocal(c)
    \/ DeleteCloud(c)
    \/ DeleteLocal(c)
    \/ WriteLocalError(c)

\* The customer screen whose handlers may overlap: one is begun while another
\* awaits its call.  No Remote is configured: the store is the Local store.
NextOptimistic ==
    \/ Optimistic("ui") \/ OptimisticSteps("ui")
    \/ Optimistic("bg") \/ OptimisticSteps("bg")

SpecOptimistic == InitForms /\ [][NextOptimistic]_vars

\* A page that subscribes on mount and unsubscribes on unmount, the row
\* events of its tables, and a Remote that comes and goes.
NextRealtime ==
    \/ Mount
    \/ Unmount
    \/ \E s \in Watched : UnsubscribeAgain(s)
    \/ \E s \in Watched : Joined(s)
    \/ \E s \in Watched : Left(s)
    \/ \E s \in Watched : RowEvent(s)
    \/ RemoteFlip

SpecRealtime == Init /\ [][NextRealtime]_vars

\* save() as one caller uses it.
Saves(c) ==
    \/ \E id \in Ids, v \in Vals : SaveCall(c, "customers", id, v)
    \/ SaveCloud(c)
    \/ SaveLocal(c)

\* Two callers whose save calls may overlap; the Remote, where configured,
\* is reachable throughout.
NextOverlap == Saves("ui") \/ Saves("bg")

SpecOverlap == InitSystem /\ [][NextOverlap]_vars

\* Startup and the saving of user records (the password reset of the login
\* page, user management), over a Remote that comes and goes.
NextReset ==
    \/ Startup
    \/ \E id \in Ids, v \in Vals : SaveCall("ui", "users", id, v)
    \/ SystemSteps("ui")
    \/ RemoteFlip

SpecReset == Init /\ [][NextReset]_vars

\* User records are saved, and workbooks that hold one row of one sheet are
\* restored; the Remote is absent, or configured and reachable, throughout.
NextRestoreFrame ==
    \/ \E id \in Ids, v \in Vals : SaveCall("ui", "users", id, v)
    \/ \E b \in RowUploads : RestoreCall(b)
    \/ Import
    \/ SaveCloud("ui")
    \/ SaveLocal("ui")

SpecRestoreFrame == InitSystem /\ [][NextRestoreFrame]_vars

TypeOK ==
    /\ configured \in BOOLEAN /\ remoteUp \in BOOLEAN /\ localDb \in BOOLEAN
    /\ netAttempted \in BOOLEAN
    /\ \A s \in Stores : remote[s] \in Rows /\ local[s] \in Rows
    /\ \A c \in Callers :
        /\ call[c].op \in {"none", "all", "save", "delete", "getById", "subscribe",
                            "login", "getSession", "setSession", "init", "backup",
                            "restore"}
        /\ call[c].pc \in {"idle", "cloud", "local", "done"}
        /\ call[c].out \in {"none", "resolved", "rejected"}
        /\ call[c].res \in Rows /\ call[c].cloud \in Rows
    /\ watch.kind \in {"none", "save", "delete"}
    /\ session \in Ids \cup {NoSession}
    /\ task.name \in {"none", "login", "getSession", "init", "backup", "restore"}
    /\ Blank(form) \/ (form.page \in {"jobs", "invoice"} /\ Len(form.items) <= MaxItems
                        /\ form.status \in JobStatuses /\ form.paid \in Paids)
    /\ Blank(job) \/ (job.by \in {"handleSave", "handleItemStatusUpdate", "handleCommitInvoice"}
                       /\ job.status \in JobStatuses
                       /\ job.paymentStatus \in {"PAID", "PARTIAL", "UNPAID"})
    /\ shown \in Rows
    /\ \A c \in DOMAIN handler : handler[c].name \in {"save", "delete", "fetch", "import"}
    /\ Blank(sent) \/ sent.by \in {"handleSave", "handleImportExcel"}
    /\ \A s \in DOMAIN chan :
          /\ chan[s].state \in {"noop", "joining", "joined", "leaving", "closed"}
          /\ chan[s].events \in 0..MaxEvents /\ chan[s].invoked \in 0..MaxEvents

\* ================================================================ claims

\* C1 (read-your-writes): an all() that follows a resolved save(r), with no
\* save or delete of r.id begun since, resolves to a list that holds r with
\* r's contents.
ReadYourWrites ==
    \A c \in Callers :
        (Settled(c, "all") /\ watch.kind = "save" /\ watch.store = call[c].store)
            => (call[c].out = "resolved" /\ Holds(call[c].res, watch.id, watch.val))

\* C2 (guaranteed-local writes): from the moment save(r) has resolved until a
\* save or delete of r.id begins, the Local store holds r under r.id.
GuaranteedLocal ==
    watch.kind = "save" => Holds(local[watch.store], watch.id, watch.val)

\* C3 (all() never raises): every all() resolves; served from the Local store
\* it resolves to the Local records, and to the empty list when the Local
\* read request failed or the Local database could not be opened.
AllNeverRaises ==
    \A c \in Callers :
        Settled(c, "all") =>
            /\ call[c].out = "resolved"
            /\ (call[c].src = "local" /\ call[c].lf = "ok") => call[c].res = local[call[c].store]
            /\ (call[c].src = "local" /\ call[c].lf # "ok") => call[c].res = Empty

\* C4 (unconfigured Remote): with no Remote configured, whatever saves and
\* deletes went before, all() resolves to exactly the records the Local
\* store holds for that collection.
UnconfiguredAllIsLocal ==
    \A c \in Callers :
        (~configured /\ Settled(c, "all")) =>
            (call[c].out = "resolved" /\ call[c].res = local[call[c].store])

\* A list of one record served from Local after a save and a delete.
UnconfiguredAllIsLocalWitness ==
    /\ ~configured
    /\ Settled("ui", "all")
    /\ call["ui"].res # Empty
    /\ watch.kind = "delete" /\ ~watch.absent

ConvergenceOnRead ==
    \A c \in Callers :
        (Settled(c, "all") /\ call[c].src = "cloud") => local[call[c].store] = call[c].res

\* C7 (delete of an absent id): a delete(id) of an id that neither copy of the
\* collection holds changes no record and does not reject, and from then on
\* (until a save of that id begins) no all() returns that id.
DeleteAbsentIsNoOp ==
    /\ [][\A c \in Callers :
            (call[c].op = "delete" /\ call[c].absent /\ call[c].pc \in {"cloud", "local"})
                => (local' = local /\ remote' = remote /\ call'[c].out # "rejected")]_vars
    /\ [](\A c \in Callers :
            (watch.kind = "delete" /\ watch.absent) =>
                /\ watch.id \notin DOMAIN local[watch.store]
                /\ (Settled(c, "all") /\ call[c].store = watch.store)
                      => (call[c].out = "resolved" /\ watch.id \notin DOMAIN call[c].res))

\* An all() that returned the other records after the delete of an absent id.
DeleteAbsentIsNoOpWitness ==
    /\ watch.kind = "delete" /\ watch.absent
    /\ Settled("ui", "all") /\ call["ui"].store = watch.store
    /\ call["ui"].res # Empty

\* C8 (rejection of writes): a settled save or delete has rejected exactly
\* when its Local step failed (the open or the request); it never settles
\* without having attempted the Local write, a resolved one has written the
\* Local store, and after a rejection the caller can make its next call.
WritesRejectIffLocalFails ==
    \A c \in Callers :
        (Settled(c, "save") \/ Settled(c, "delete")) =>
            /\ call[c].lf # "none"
            /\ (call[c].out = "rejected") <=> (call[c].lf \in {"open", "request"})
            /\ (call[c].out = "resolved" /\ call[c].op = "save")
                  => Holds(local[call[c].store], call[c].id, call[c].val)
            /\ (call[c].out = "resolved" /\ call[c].op = "delete")
                  => call[c].id \notin DOMAIN local[call[c].store]
            /\ call[c].out = "rejected" => Free(c)

\* A save resolved although its Remote step failed, and a later delete
\* rejected because its Local request failed although its Remote step
\* succeeded.
WritesRejectIffLocalFailsWitness ==
    /\ watch.kind = "save"
    /\ watch.id \notin DOMAIN remote[watch.store]
    /\ Settled("ui", "delete") /\ call["ui"].out = "rejected" /\ call["ui"].lf = "request"
    /\ remoteUp /\ configured

\* C9 (no replay): the Remote tables change only in the cloud step of a save
\* or delete whose request is answered at that moment, and only by that
\* call's upsert or delete.
NoReplay ==
    [][remote' # remote =>
        \E c \in Callers :
            /\ call[c].pc = "cloud" /\ RemoteAnswers
            /\ \/ call[c].op = "save"
                  /\ remote' = [remote EXCEPT ![call[c].store] =
                                   Put(remote[call[c].store], call[c].id, call[c].val)]
               \/ call[c].op = "delete"
                  /\ remote' = [remote EXCEPT ![call[c].store] =
                                   Delete(remote[call[c].store], call[c].id)]]_vars

\* A record saved while the Remote was down is still missing from the Remote
\* after the Remote is back and an all() has read it.
NoReplayWitness ==
    /\ Settled("ui", "all") /\ call["ui"].src = "cloud"
    /\ watch.kind = "save"
    /\ Holds(local[watch.store], watch.id, watch.val)
    /\ watch.id \notin DOMAIN remote[watch.store]

\* C10 (unconfigured stays unconfigured): configured never changes, and while
\* it is false no call reaches the network, no call gets data or a channel
\* from the Remote, and the Remote tables stay untouched.
UnconfiguredNeverCalls ==
    /\ [][configured' = configured]_vars
    /\ [](~configured =>
            /\ ~netAttempted
            /\ remote = [s \in Stores |-> Empty]
            /\ \A c \in Callers : ~call[c].cloudOk /\ call[c].src \notin {"cloud", "channel"})

\* Unconfigured, after a save: a getById served from the Local store.
UnconfiguredNeverCallsWitness ==
    /\ ~configured
    /\ watch.kind = "save"
    /\ Settled("ui", "getById") /\ call["ui"].src = "local" /\ call["ui"].res # Empty

\* C11 (Remote errors are absorbed): with a working Local store, no all, save,
\* delete or getById rejects, however the Remote request fails; the call
\* falls back to the Local store.
RemoteErrorsAbsorbed ==
    \A c \in Callers : call[c].out # "rejected"

\* C13 (login): login never rejects; what it returns is a stored user whose
\* username and password both equal the arguments; it returns one whenever a
\* user with these credentials is stored (a save of it has resolved and no
\* save or delete of its id has begun since); and it returns absent when
\* neither copy of the users collection holds such a user, be the username
\* unknown or the password wrong.
LoginMatchesStoredUsers ==
    Settled("ui", "login") =>
        LET k == call["ui"].val
            res == call["ui"].res
            stored == Matching(local["users"], k) \cup Matching(remote["users"], k) IN
        /\ call["ui"].out = "resolved"
        /\ \A id \in DOMAIN res :
              /\ Username(res[id]) = Username(k) /\ Password(res[id]) = Password(k)
              /\ Holds(local["users"], id, res[id]) \/ Holds(remote["users"], id, res[id])
        /\ (watch.kind = "save" /\ watch.store = "users"
               /\ Username(watch.val) = Username(k) /\ Password(watch.val) = Password(k))
              => res # Empty
        /\ stored = {} => res = Empty

\* C14 (getSession): getSession resolves; to absent when no session pointer is
\* stored and when the user pointed to has been deleted (a delete of its id
\* has resolved and no save of it has begun since); and otherwise to nothing
\* but the user whose id is the pointer.
GetSessionResolvesPointer ==
    Settled("ui", "getSession") =>
        /\ call["ui"].out = "resolved"
        /\ session = NoSession => call["ui"].res = Empty
        /\ (watch.kind = "delete" /\ watch.store = "users" /\ watch.id = session)
              => call["ui"].res = Empty
        /\ DOMAIN call["ui"].res \subseteq {session}

\* C15 (setSession): a setSession(user) leaves the pointer at user.id, a
\* setSession(null) leaves no pointer, and neither changes a record of the
\* Local or of the Remote store.
SetSessionOnlyMovesPointer ==
    [][(call'["ui"].op = "setSession" /\ (call' # call \/ session' # session))
          => /\ session' = call'["ui"].id
             /\ local' = local /\ remote' = remote]_vars

\* A pointer set to a user that both stores hold, with other contents than
\* the user object passed.
SetSessionOnlyMovesPointerWitness ==
    /\ Settled("ui", "setSession")
    /\ session # NoSession /\ session = call["ui"].id
    /\ session \in DOMAIN local["users"] /\ session \in DOMAIN remote["users"]
    /\ local["users"][session] # call["ui"].val

\* C12 (settings singleton): neither store ever holds a settings record under
\* another key than current_config; when init has resolved, the Local store
\* holds the record under that key; and once it does, no step of settings.save
\* or restore removes it (only a fresh installation starts without it).
SettingsSingleton ==
    /\ [](/\ DOMAIN local["settings"] \subseteq {CurrentConfig}
          /\ DOMAIN remote["settings"] \subseteq {CurrentConfig}
          /\ (Settled("ui", "init") /\ call["ui"].out = "resolved")
                => DOMAIN local["settings"] = {CurrentConfig})
    /\ [][(CurrentConfig \in DOMAIN local["settings"] /\ localDb' = localDb)
            => CurrentConfig \in DOMAIN local'["settings"]]_vars

\* C16 (foreign workbook): a restore of a workbook none of whose sheet names
\* is an entity type writes no record to either store and settles rejected.
RestoreRejectsForeignWorkbook ==
    [][(task.name = "restore" /\ Recognized(task.book) = {})
          => /\ local' = local /\ remote' = remote
             /\ task'.name = "none" => call'["ui"].out = "rejected"]_vars

\* C17 (row failures do not abort): a restore that has loaded its workbook
\* settles only after every row of every recognized sheet has been handed to
\* save, whether or not a save rejected.
RestoreSavesEveryRow ==
    [][(task.name = "restore" /\ task.pc = "loop" /\ task'.name = "none")
          => Pending(task.book, task.at, task.id) = {}]_vars

\* C18 (round trip): when a restore of the last backup into stores that were
\* empty has resolved, every collection holds exactly the records the backup
\* read from it.
RoundTrip ==
    [][(task.name = "restore" /\ task.fresh /\ task'.name = "none"
            /\ call'["ui"].out = "resolved")
          => \A s \in Stores : local'[s] = orig[s]]_vars

\* C19 (every operation settles): while a call or an operation of the caller
\* has not settled, some step of it can be taken, whatever fails.
EveryOperationSettles ==
    ~Free("ui") => ENABLED NextSystemFaults

\* C20 (seeding): when init has resolved, the users, services and settings
\* collections are all non-empty; and an init that finds users or settings
\* non-empty leaves that collection as it is.
InitSeedsDefaults ==
    /\ []((Settled("ui", "init") /\ call["ui"].out = "resolved")
            => \A s \in {"users", "services", "settings"} : local[s] # Empty)
    /\ [][task.name = "init"
            => \A s \in {"users", "settings"} :
                  local[s] # Empty => local'[s] = local[s]]_vars

\* C21: every job handed to jobs.save, by the job form, by the status select
\* of the task list or by the invoice form, carries the status that follows
\* from its items: COMPLETED when all are COMPLETED, IN_PROGRESS when some item
\* is IN_PROGRESS or COMPLETED and not all are COMPLETED, CANCELLED when all
\* are CANCELLED, PENDING otherwise.
JobStatusFollowsItems ==
    ~Blank(job) =>
        LET all(st) == \A i \in DOMAIN job.items : job.items[i].status = st
            begun == \E i \in DOMAIN job.items :
                        job.items[i].status \in {"IN_PROGRESS", "COMPLETED"} IN
        /\ job.status = "COMPLETED" <=> all("COMPLETED")
        /\ job.status = "IN_PROGRESS" <=> (begun /\ ~all("COMPLETED"))
        /\ job.status = "CANCELLED" <=> all("CANCELLED")
        /\ job.status = "PENDING" <=> (~begun /\ ~all("CANCELLED"))

\* C22: every job handed to jobs.save has balance = max(0, totalAmount -
\* paidAmount), and is PAID when the balance is 0, PARTIAL when something was
\* paid and a balance remains, UNPAID otherwise.
BalanceAndPaymentStatus ==
    ~Blank(job) =>
        /\ job.balance = Max(0, job.totalAmount - job.paidAmount)
        /\ job.paymentStatus =
             IF job.balance = 0 THEN "PAID"
             ELSE IF job.paidAmount > 0 /\ job.balance > 0 THEN "PARTIAL"
             ELSE "UNPAID"

\* C22, its case: each form has written a job that is partly paid.
BalanceAndPaymentStatusWitness ==
    /\ ~Blank(job) /\ job.by = "handleCommitInvoice"
    /\ job.paymentStatus = "PARTIAL"
    /\ Len(job.items) = MaxItems
    /\ job.balance > 0

\* The sum of the subtotals the items of a job carry.
RECURSIVE SubtotalSum(_)
SubtotalSum(items) ==
    IF items = <<>> THEN 0 ELSE Head(items).subtotal + SubtotalSum(Tail(items))

\* C23: every job handed to jobs.save has, for each item, subtotal =
\* max(0, quantity * unitPrice - discount), and totalAmount equal to the sum
\* of the subtotals, also when a discount exceeds quantity * unitPrice.
TotalIsSumOfSubtotals ==
    ~Blank(job) =>
        /\ \A i \in DOMAIN job.items :
             job.items[i].subtotal =
                Max(0, job.items[i].quantity * job.items[i].unitPrice
                       - job.items[i].discount)
        /\ job.totalAmount = SubtotalSum(job.items)

\* C24: no customer whose Aadhaar number is non-empty and not 12 characters
\* long is handed to customers.save, by the form save or by the import.
AadhaarCheckedBeforeSave ==
    ~Blank(sent) => Length(sent.aadhaar) \in {0, AadhaarLength}

\* C30: where the store is the Local store, once no handler of the customer
\* screen awaits a call the list displayed holds the records of the store's
\* customer collection.
DisplayMatchesStore ==
    Blank(handler) => shown = local["customers"]

\* C25: for every table subscribed to, callback has been invoked once for each
\* row event since subscribe returned and before unsubscribe was called, never
\* for an event after unsubscribe was called, and never when no Remote is
\* configured.
CallbackOncePerEvent ==
    \A s \in DOMAIN chan :
        /\ chan[s].invoked = chan[s].events
        /\ ~chan[s].late
        /\ chan[s].state = "noop" => chan[s].invoked = 0

\* C26: once delete(id) has resolved for a record that existed, and until a
\* save or delete of that id begins, the Local store does not hold the id and
\* no all() that has settled since returned it.
DeletedStaysDeleted ==
    (watch.kind = "delete" /\ ~watch.absent) =>
        /\ watch.id \notin DOMAIN local[watch.store]
        /\ (Settled("ui", "all") /\ call["ui"].store = watch.store)
               => watch.id \notin DOMAIN call["ui"].res

\* C27: when the save calls of the two callers for one id have both resolved
\* and the Remote is reachable, the Local store and the Remote store hold the
\* same one of the two records for that id.
OverlappingSavesAgree ==
    (/\ Settled("ui", "save") /\ Settled("bg", "save")
     /\ call["ui"].id = call["bg"].id
     /\ configured /\ remoteUp)
        => LET id == call["ui"].id IN
           /\ local["customers"][id] = remote["customers"][id]
           /\ local["customers"][id] \in {call["ui"].val, call["bg"].val}

\* C28: no step taken while init runs replaces or removes a user record that
\* the Local store holds.
InitKeepsLocalUsers ==
    [][task.name = "init" =>
          \A id \in DOMAIN local["users"] :
              id \in DOMAIN local'["users"] /\ local'["users"][id] = local["users"][id]]_vars

============================================================================
